---- MODULE Spec2Model ----
(***************************************************************************)
(* A model of the chainerror crate (src/src/lib.rs): the generic link      *)
(* Error<T>, the Context attachment methods on Result, the cause iterator  *)
(* ErrorIter, the find_* / root_cause navigation, the ErrorDown downcasts, *)
(* the Display / Debug renderings and the newtype of err_kind!.            *)
(*                                                                         *)
(* Errors live in a heap: `nodes` is a sequence of error values and an id  *)
(* is an index into it (the address of a Box, or of the value held by the  *)
(* client's Result).  Text is a sequence of tokens; the token "\n" is the  *)
(* line break.  Option values are sequences of length 0 (None) or 1 (Some).*)
(***************************************************************************)
EXTENDS Naturals, Sequences, FiniteSets

VARIABLES
    nodes,      \* the heap: Seq of error values (links and foreign errors)
    res,        \* the Result the client holds: Ok(value) or Err(id)
    it,         \* the client's ErrorIter, if it has one: [live, current]
    yielded,    \* what the live iterator's next() has returned Some of so far
    call        \* the last call made: [op, arg, recv, ret]

vars == <<nodes, res, it, yielded, call>>

----------------------------------------------------------------------------
(* Bounds of the exploration. *)

\* the number of error values one behaviour allocates
MaxNodes == 3
\* the largest number of links whose kind is itself a link
MaxNested == 1

----------------------------------------------------------------------------
(* Option and text helpers. *)

None == <<>>
Some(x) == <<x>>
IsSome(o) == Len(o) = 1
Unwrap(o) == o[1]

NL == "\n"

Last(s) == s[Len(s)]

\* str::lines() as the tests use it: the text split at every line break
RECURSIVE LinesFrom(_, _, _)
LinesFrom(s, i, cur) ==
    IF i > Len(s) THEN <<cur>>
    ELSE IF s[i] = NL THEN <<cur>> \o LinesFrom(s, i + 1, <<>>)
    ELSE LinesFrom(s, i + 1, Append(cur, s[i]))
Lines(s) == LinesFrom(s, 1, <<>>)

\* the Debug form of a str escapes the line break
EscapeDebug(s) == [i \in 1..Len(s) |-> IF s[i] = NL THEN "\\n" ELSE s[i]]

----------------------------------------------------------------------------
(* Types.  A type is a sequence of names: <<"io::Error">> is io::Error and *)
(* <<"Error", "&str">> is Error<&str>; TypeId equality is equality of      *)
(* these sequences.                                                        *)

TStr == <<"&str">>
TString == <<"String">>
TFunc1Error == <<"Func1Error">>          \* a str_context! newtype
TMappedError == <<"MappedError">>        \* a str_context! newtype
TAnnotatedError == <<"AnnotatedError">>
TIoError == <<"io::Error">>
TTestErrorKind == <<"TestErrorKind">>    \* an enum of error kinds
TTestError == <<"TestError">>            \* err_kind!(TestError, TestErrorKind)
TTextError == <<"TextError">>            \* err_kind!(TextError, String)

\* err_kind!($e, $k): the newtype $e generated for the kind type $k
FacadeType(K) == IF K = TString THEN TTextError ELSE TTestError
FacadeKindTypes == {TTestErrorKind, TString}

\* Error<T>
ErrorOf(T) == <<"Error">> \o T

\* the newtypes str_context! generates: struct $e(pub String)
StrContextTypes == {TFunc1Error, TMappedError}

\* A value is [ty, v]: its type and its text payload.
Val(T, v) == [ty |-> T, v |-> v]

\* impl Display for AnnotatedError, impl Debug for AnnotatedError
AnnotatedErrorFmt == <<"(passed error)">>

\* str_context!: impl Display for $e writes the string
StrContextDisplay(k) == k.v

\* str_context!: impl Debug for $e writes the type's name and the string
StrContextDebug(k) == <<k.ty[1], "(">> \o k.v \o <<")">>

\* Display and Debug of io::Error::from(io::ErrorKind::NotFound)
IoErrorDisplay(k) == <<"entity not found">>
IoErrorDebug(k) == <<"Kind(", k.v[1], ")">>

\* Display and Debug of &str and String
StrDisplay(k) == k.v
StrDebug(k) == <<"\"">> \o EscapeDebug(k.v) \o <<"\"">>

\* impl Display for TestErrorKind and #[derive(Debug)], for Basic(msg); a
\* TestError made from a kind alone shows as the kind it holds
TestErrorKindDisplay(k) == <<"Basic error: ">> \o k.v
TestErrorKindDebug(k) == <<"Basic(\"">> \o EscapeDebug(k.v) \o <<"\")">>

\* Display::fmt of a value, by its type
ValDisplay(k) ==
    CASE k.ty = TAnnotatedError -> AnnotatedErrorFmt
      [] k.ty \in {TTestErrorKind, TTestError} -> TestErrorKindDisplay(k)
      [] k.ty = TIoError -> IoErrorDisplay(k)
      [] k.ty \in StrContextTypes -> StrContextDisplay(k)
      [] OTHER -> StrDisplay(k)

\* Debug::fmt of a value, by its type
ValDebug(k) ==
    CASE k.ty = TAnnotatedError -> AnnotatedErrorFmt
      [] k.ty \in {TTestErrorKind, TTestError} -> TestErrorKindDebug(k)
      [] k.ty = TIoError -> IoErrorDebug(k)
      [] k.ty \in StrContextTypes -> StrContextDebug(k)
      [] OTHER -> StrDebug(k)

\* AnnotatedError(())
AnnotatedError == Val(TAnnotatedError, <<>>)

\* The pretty printer of {:#?}: what is written inside a struct or a tuple
\* goes through a PadAdapter, which puts four spaces at the start of every
\* line; depth is the number of adapters the text passes through.
Indent(depth) == [i \in 1..depth |-> "    "]
LineBreak(depth) == <<NL>> \o Indent(depth)

\* a text written as it is through the adapters
RECURSIVE PadFrom(_, _, _)
PadFrom(s, i, depth) ==
    IF i > Len(s) THEN <<>>
    ELSE (IF s[i] = NL THEN LineBreak(depth) ELSE <<s[i]>>) \o PadFrom(s, i + 1, depth)
Pad(s, depth) == PadFrom(s, 1, depth)

\* DebugTuple with one field under {:#?}; open is the name and the bracket,
\* field the field's text at depth + 1
DebugTupleAlternate(open, field, depth) ==
    <<open>> \o LineBreak(depth + 1) \o field \o <<",">> \o LineBreak(depth) \o <<")">>

\* DebugStruct::field under {:#?}, value being the value's text at depth + 1
DebugFieldAlternate(name, value, depth) ==
    LineBreak(depth + 1) \o <<name, ": ">> \o value \o <<",">>

\* debug_struct(name).field("occurrence", ..).field("kind", ..)
\*     .field("source", ..).finish() under {:#?}
DebugStructAlternate(name, occurrence, kind, src, depth) ==
    name \o <<" {">>
        \o DebugFieldAlternate("occurrence", occurrence, depth)
        \o DebugFieldAlternate("kind", kind, depth)
        \o DebugFieldAlternate("source", src, depth)
        \o LineBreak(depth) \o <<"}">>

\* std::any::type_name::<T>()
TypeName(T) ==
    CASE T = TString -> <<"alloc::string::String">>
      [] T = TStr -> <<"&str">>
      [] T = TIoError -> <<"std::io::error::Error">>
      [] T = TAnnotatedError -> <<"chainerror::AnnotatedError">>
      [] OTHER -> <<"chainerror::tests::", T[1]>>

\* format!("{:#?}", ..) of an Option<String>
OptionStringDebugAlternate(o, depth) ==
    IF IsSome(o) THEN DebugTupleAlternate("Some(", StrDebug(Val(TString, Unwrap(o))), depth)
    ELSE <<"None">>

\* Debug::fmt of a value under {:#?}, by its type: the derived and the std
\* implementations print pretty, the hand-written ones ignore the flag; a
\* TestError made from a kind alone prints the link it holds
ValDebugAlternate(k, depth) ==
    CASE k.ty = TIoError -> DebugTupleAlternate("Kind(", <<k.v[1]>>, depth)
      [] k.ty = TTestErrorKind -> DebugTupleAlternate("Basic(", StrDebug(k), depth)
      [] k.ty = TTestError ->
             DebugStructAlternate(<<"Error<">> \o TypeName(TTestErrorKind) \o <<">">>,
                 <<"None">>, DebugTupleAlternate("Basic(", StrDebug(k), depth + 1),
                 <<"None">>, depth)
      [] OTHER -> Pad(ValDebug(k), depth)

----------------------------------------------------------------------------
(* Error values. *)

\* a constructor that forgets the cause
ErrorNewDropsCause(kind, error_cause, occurrence) ==
    [shape |-> "link", occurrence |-> occurrence, kind |-> kind, error_cause |-> None]

\* Error::new
Error_new(kind, error_cause, occurrence) ==
    [shape |-> "link", occurrence |-> occurrence, kind |-> kind,
     error_cause |-> error_cause]

\* a foreign error value (io::Error, a str_context! newtype used as an error)
Foreign(value) ==
    [shape |-> "raw", occurrence |-> None, kind |-> value, error_cause |-> None]

\* err_kind!: impl From<Error<$k>> for $e wraps the link in the newtype; the
\* value keeps its fields and its place, its type is now $e
IntoFacade(n) == [n EXCEPT !.shape = "facade"]

\* a From<$k> that captures the caller's location as Error::from does
FacadeFromKindWithLocation(k) ==
    IntoFacade(Error_new(k, None, Some(<<"src/lib.rs", ":", "701", ":", "20">>)))

\* err_kind!: impl From<$k> for $e
Facade_from_kind(k) == IntoFacade(Error_new(k, None, None))

\* a type test that sees through the err_kind! newtype to the link it wraps
TypeIdThroughFacade(n) ==
    CASE n.shape \in {"link", "facade"} -> ErrorOf(n.kind.ty)
      [] OTHER -> n.kind.ty

\* the erased concrete type of an error value (what Any::type_id answers)
type_id(n) ==
    CASE n.shape = "link" -> ErrorOf(n.kind.ty)
      [] n.shape = "facade" -> FacadeType(n.kind.ty)
      [] OTHER -> n.kind.ty

\* Error::kind
Kind(n) == n.kind

\* err_kind!: $e::kind
Facade_kind(n) == Kind(n)

\* Location::caller().to_string()
LocationToString(loc) == <<loc.file, ":", loc.line, ":", loc.col>>

----------------------------------------------------------------------------
(* The cause edge and the cause iterator. *)

\* a source() that never answers a cause
ErrorSourceNone(n) == None

\* a source() that answers the kind when the kind is itself a link
ErrorSourceThroughKind(n) ==
    IF n.kind.ty # <<>> /\ n.kind.ty[1] = "Error" THEN Some(n.kind.v[2])
    ELSE n.error_cause

\* impl StdError for Error<T>: source() is the boxed cause, by reference
Error_source(n) == n.error_cause

\* dyn StdError::source(): a link answers its cause, an err_kind! newtype the
\* cause of the link it wraps, a foreign error its own
source(heap, id) ==
    IF heap[id].shape \in {"link", "facade"} THEN Error_source(heap[id])
    ELSE heap[id].error_cause

\* Error::iter
iter(self) == [current |-> Some(self)]

\* a next() that forgets to advance
ErrorIterNextStuck(heap, current) == [ret |-> current, current |-> current]

\* a next() that moves to the source before it reads the current node
ErrorIterNextAdvancesFirst(heap, current) ==
    LET moved == IF IsSome(current) THEN source(heap, Unwrap(current)) ELSE None
    IN  [ret |-> moved, current |-> moved]

\* a next() that starts over at the newest error value once the end is reached
ErrorIterNextRestarts(heap, current) ==
    IF IsSome(current)
    THEN [ret |-> current, current |-> source(heap, Unwrap(current))]
    ELSE [ret |-> Some(Len(heap)), current |-> source(heap, Len(heap))]

\* ErrorIter::next: returns the current node and moves to its source
ErrorIter_next(heap, current) ==
    [ret |-> current,
     current |-> IF IsSome(current) THEN source(heap, Unwrap(current)) ELSE None]

\* an iterator driven until next() returns None (as last() and filter_map do);
\* fuel cuts the evaluation off after more steps than the heap has values
RECURSIVE IterCollect(_, _, _)
IterCollect(heap, current, fuel) ==
    LET s == ErrorIter_next(heap, current)
    IN  IF fuel = 0 \/ ~IsSome(s.ret) THEN <<>>
        ELSE <<Unwrap(s.ret)>> \o IterCollect(heap, s.current, fuel - 1)

IterAll(heap, self) == IterCollect(heap, iter(self).current, Len(heap) + 1)

\* Iterator::next of a filter_map: the first Some of the mapped sequence
FirstSome(m) ==
    IF \E i \in DOMAIN m : IsSome(m[i])
    THEN m[CHOOSE i \in DOMAIN m : IsSome(m[i]) /\ \A j \in 1..(i - 1) : ~IsSome(m[j])]
    ELSE None

\* a downcast that also takes a link whose kind has the type asked for
DowncastRefMatchesKind(heap, id, U) ==
    IF type_id(heap[id]) = U \/ (heap[id].shape = "link" /\ heap[id].kind.ty = U)
    THEN Some(id) ELSE None

\* <dyn StdError>::downcast_ref::<U>
downcast_ref(heap, id, U) == IF type_id(heap[id]) = U THEN Some(id) ELSE None

\* a root_cause that answers the receiver's direct cause
RootCauseShallow(heap, self) ==
    LET s == IterAll(heap, self)
    IN  IF Len(s) >= 2 THEN Some(s[2]) ELSE IF s = <<>> THEN None ELSE Some(s[1])

\* Error::root_cause: self.iter().last()
root_cause(heap, self) ==
    LET s == IterAll(heap, self) IN IF s = <<>> THEN None ELSE Some(Last(s))

\* a find_cause that starts below the receiver
FindCauseBelowSelf(heap, self, U) ==
    LET s == IterAll(heap, self)
    IN  FirstSome([i \in 1..(Len(s) - 1) |-> downcast_ref(heap, s[i + 1], U)])

\* Error::find_cause
find_cause(heap, self, U) ==
    LET s == IterAll(heap, self)
    IN  FirstSome([i \in DOMAIN s |-> downcast_ref(heap, s[i], U)])

\* a find_chain_cause that answers the innermost match
FindChainCauseLast(heap, self, U) ==
    LET s == IterAll(heap, self)
        r == [i \in DOMAIN s |-> downcast_ref(heap, s[Len(s) + 1 - i], ErrorOf(U))]
    IN  FirstSome(r)

\* Error::find_chain_cause
find_chain_cause(heap, self, U) ==
    LET s == IterAll(heap, self)
    IN  FirstSome([i \in DOMAIN s |-> downcast_ref(heap, s[i], ErrorOf(U))])

\* a reference the inner lookups return: to an error value itself, or to the
\* kind field of a link
SelfRef(id) == [node |-> id, field |-> "self"]
KindRef(id) == [node |-> id, field |-> "kind"]

\* the closure of find_kind_or_cause, applied to one node of the chain
KindOrCause(heap, id, U) ==
    LET l == downcast_ref(heap, id, ErrorOf(U))
        r == downcast_ref(heap, id, U)
    IN  IF IsSome(l) THEN Some(KindRef(Unwrap(l)))
        ELSE IF IsSome(r) THEN Some(SelfRef(Unwrap(r)))
        ELSE None

\* a find_kind_or_cause in two passes: find_chain_cause, then find_cause
FindKindOrCauseTwoPass(heap, self, U) ==
    LET l == find_chain_cause(heap, self, U)
        r == find_cause(heap, self, U)
    IN  IF IsSome(l) THEN Some(KindRef(Unwrap(l)))
        ELSE IF IsSome(r) THEN Some(SelfRef(Unwrap(r)))
        ELSE None

\* a find_kind_or_cause without the or_else: links only
FindKindOrCauseNoFallback(heap, self, U) ==
    LET l == find_chain_cause(heap, self, U)
    IN  IF IsSome(l) THEN Some(KindRef(Unwrap(l))) ELSE None

\* Error::find_kind_or_cause
find_kind_or_cause(heap, self, U) ==
    LET s == IterAll(heap, self)
    IN  FirstSome([i \in DOMAIN s |-> KindOrCause(heap, s[i], U)])

----------------------------------------------------------------------------
(* ErrorDown. *)

\* an is_chain that compares against the link type instead of the kind type
ErrorIsChainLoose(n, T) == T = n.kind.ty \/ T = ErrorOf(n.kind.ty)

\* impl ErrorDown for Error<U>: is_chain
Error_is_chain(n, T) == T = n.kind.ty

\* impl ErrorDown for Error<U>: downcast_chain_ref (the same address, retyped)
Error_downcast_chain_ref(heap, id, T) ==
    IF Error_is_chain(heap[id], T) THEN Some(id) ELSE None

\* a downcast_chain_mut that retypes the link without the type test
ErrorDowncastChainMutUnchecked(heap, id, T) == Some(id)

\* impl ErrorDown for Error<U>: downcast_chain_mut (the same address, retyped)
Error_downcast_chain_mut(heap, id, T) ==
    IF Error_is_chain(heap[id], T) THEN Some(id) ELSE None

\* impl ErrorDown for dyn StdError: is_chain
dyn_is_chain(heap, id, T) == type_id(heap[id]) = ErrorOf(T)

\* impl ErrorDown for dyn StdError: downcast_chain_ref
dyn_downcast_chain_ref(heap, id, T) == downcast_ref(heap, id, ErrorOf(T))

\* <dyn StdError>::downcast_mut::<U>: the same test, a mutable reference
downcast_mut(heap, id, U) == IF type_id(heap[id]) = U THEN Some(id) ELSE None

\* impl ErrorDown for dyn StdError: downcast_chain_mut
dyn_downcast_chain_mut(heap, id, T) == downcast_mut(heap, id, ErrorOf(T))

\* impl ErrorDown for Error<U>: downcast_inner_ref
Error_downcast_inner_ref(heap, id, T) ==
    IF Error_is_chain(heap[id], T) THEN Some(KindRef(id)) ELSE None

\* a downcast_inner_mut that retypes the kind without the type test
ErrorDowncastInnerMutUnchecked(heap, id, T) == Some(KindRef(id))

\* impl ErrorDown for Error<U>: downcast_inner_mut
Error_downcast_inner_mut(heap, id, T) ==
    IF Error_is_chain(heap[id], T) THEN Some(KindRef(id)) ELSE None

\* impl ErrorDown for dyn StdError: downcast_inner_ref
dyn_downcast_inner_ref(heap, id, T) ==
    LET r == downcast_ref(heap, id, T)
        l == downcast_ref(heap, id, ErrorOf(T))
    IN  IF IsSome(r) THEN Some(SelfRef(Unwrap(r)))
        ELSE IF IsSome(l) THEN Some(KindRef(Unwrap(l)))
        ELSE None

\* a downcast_inner_mut without the early return for a value that is a T
DynDowncastInnerMutLinkOnly(heap, id, T) ==
    LET l == downcast_mut(heap, id, ErrorOf(T))
    IN  IF IsSome(l) THEN Error_downcast_inner_mut(heap, Unwrap(l), T) ELSE None

\* impl ErrorDown for dyn StdError: downcast_inner_mut
dyn_downcast_inner_mut(heap, id, T) ==
    IF type_id(heap[id]) = T
    THEN (LET r == downcast_mut(heap, id, T)
          IN  IF IsSome(r) THEN Some(SelfRef(Unwrap(r))) ELSE None)
    ELSE LET l == downcast_mut(heap, id, ErrorOf(T))
         IN  IF IsSome(l) THEN Error_downcast_inner_mut(heap, Unwrap(l), T) ELSE None

\* the methods of trait ErrorDown
ErrorDownOps ==
    {"is_chain", "downcast_chain_ref", "downcast_chain_mut",
     "downcast_inner_ref", "downcast_inner_mut"}

\* impl ErrorDown for Error<U>
Error_ErrorDown(op, heap, id, T) ==
    CASE op = "is_chain" -> Error_is_chain(heap[id], T)
      [] op = "downcast_chain_ref" -> Error_downcast_chain_ref(heap, id, T)
      [] op = "downcast_chain_mut" -> Error_downcast_chain_mut(heap, id, T)
      [] op = "downcast_inner_ref" -> Error_downcast_inner_ref(heap, id, T)
      [] op = "downcast_inner_mut" -> Error_downcast_inner_mut(heap, id, T)

\* impl ErrorDown for dyn StdError + 'static
dyn_ErrorDown(op, heap, id, T) ==
    CASE op = "is_chain" -> dyn_is_chain(heap, id, T)
      [] op = "downcast_chain_ref" -> dyn_downcast_chain_ref(heap, id, T)
      [] op = "downcast_chain_mut" -> dyn_downcast_chain_mut(heap, id, T)
      [] op = "downcast_inner_ref" -> dyn_downcast_inner_ref(heap, id, T)
      [] op = "downcast_inner_mut" -> dyn_downcast_inner_mut(heap, id, T)

\* impl ErrorDown for dyn StdError + 'static + Send
dyn_Send_ErrorDown(op, heap, id, T) ==
    CASE op = "is_chain" -> type_id(heap[id]) = ErrorOf(T)
      [] op = "downcast_chain_ref" -> downcast_ref(heap, id, ErrorOf(T))
      [] op = "downcast_chain_mut" -> downcast_mut(heap, id, ErrorOf(T))
      [] op = "downcast_inner_ref" ->
            (LET r == downcast_ref(heap, id, T)
                 l == downcast_ref(heap, id, ErrorOf(T))
             IN  IF IsSome(r) THEN Some(SelfRef(Unwrap(r)))
                 ELSE IF IsSome(l) THEN Some(KindRef(Unwrap(l)))
                 ELSE None)
      [] op = "downcast_inner_mut" ->
            IF type_id(heap[id]) = T
            THEN (LET r == downcast_mut(heap, id, T)
                  IN  IF IsSome(r) THEN Some(SelfRef(Unwrap(r))) ELSE None)
            ELSE (LET l == downcast_mut(heap, id, ErrorOf(T))
                  IN  IF IsSome(l) THEN Error_downcast_inner_mut(heap, Unwrap(l), T)
                      ELSE None)

\* impl ErrorDown for dyn StdError + 'static + Send + Sync
dyn_Send_Sync_ErrorDown(op, heap, id, T) ==
    CASE op = "is_chain" -> type_id(heap[id]) = ErrorOf(T)
      [] op = "downcast_chain_ref" -> downcast_ref(heap, id, ErrorOf(T))
      [] op = "downcast_chain_mut" -> downcast_mut(heap, id, ErrorOf(T))
      [] op = "downcast_inner_ref" ->
            (LET r == downcast_ref(heap, id, T)
                 l == downcast_ref(heap, id, ErrorOf(T))
             IN  IF IsSome(r) THEN Some(SelfRef(Unwrap(r)))
                 ELSE IF IsSome(l) THEN Some(KindRef(Unwrap(l)))
                 ELSE None)
      [] op = "downcast_inner_mut" ->
            IF type_id(heap[id]) = T
            THEN (LET r == downcast_mut(heap, id, T)
                  IN  IF IsSome(r) THEN Some(SelfRef(Unwrap(r))) ELSE None)
            ELSE (LET l == downcast_mut(heap, id, ErrorOf(T))
                  IN  IF IsSome(l) THEN Error_downcast_inner_mut(heap, Unwrap(l), T)
                      ELSE None)

\* the implementations of ErrorDown: on the link itself and on the three
\* trait objects a link can be seen as
ErrorDownImpls == {"Error<U>", "dyn", "dyn + Send", "dyn + Send + Sync"}

ErrorDown(impl, op, heap, id, T) ==
    CASE impl = "Error<U>" -> Error_ErrorDown(op, heap, id, T)
      [] impl = "dyn" -> dyn_ErrorDown(op, heap, id, T)
      [] impl = "dyn + Send" -> dyn_Send_ErrorDown(op, heap, id, T)
      [] impl = "dyn + Send + Sync" -> dyn_Send_Sync_ErrorDown(op, heap, id, T)

----------------------------------------------------------------------------
(* Display and Debug. *)

RECURSIVE NodeDisplay(_, _, _)
RECURSIVE NodeDebug(_, _)

\* a Display that always appends the cause
ErrorDisplayVerbose(heap, id, alternate) ==
    LET n == heap[id]
        e == source(heap, id)
    IN  ValDisplay(n.kind) \o
        (IF IsSome(e)
         THEN <<NL, "Caused by:", NL, "  ">> \o NodeDisplay(heap, Unwrap(e), TRUE)
         ELSE <<>>)

\* a Display that writes the cause with {} instead of {:#}
ErrorDisplayCauseTerse(heap, id, alternate) ==
    LET n == heap[id]
        e == source(heap, id)
    IN  ValDisplay(n.kind) \o
        (IF alternate /\ IsSome(e)
         THEN <<NL, "Caused by:", NL, "  ">> \o NodeDisplay(heap, Unwrap(e), FALSE)
         ELSE <<>>)

\* impl Display for Error<T>
Error_Display(heap, id, alternate) ==
    LET n == heap[id]
        e == source(heap, id)
    IN  ValDisplay(n.kind) \o
        (IF alternate /\ IsSome(e)
         THEN <<NL, "Caused by:", NL, "  ">> \o NodeDisplay(heap, Unwrap(e), TRUE)
         ELSE <<>>)

\* Display of an error value behind dyn StdError
NodeDisplay(heap, id, alternate) ==
    IF heap[id].shape \in {"link", "facade"} THEN Error_Display(heap, id, alternate)
    ELSE ValDisplay(heap[id].kind)

\* a Debug that leaves the separator out
ErrorDebugNoSeparator(heap, id) ==
    LET n == heap[id]
        e == source(heap, id)
    IN  (IF IsSome(n.occurrence) THEN Unwrap(n.occurrence) \o <<": ">> ELSE <<>>) \o
        (IF n.kind.ty = TString \/ n.kind.ty = TStr
         THEN ValDisplay(n.kind) ELSE ValDebug(n.kind)) \o
        (IF IsSome(e) THEN <<NL>> \o NodeDebug(heap, Unwrap(e)) ELSE <<>>)

\* a Debug that writes every kind with its Debug form
ErrorDebugKindByDebug(heap, id) ==
    LET n == heap[id]
        e == source(heap, id)
    IN  (IF IsSome(n.occurrence) THEN Unwrap(n.occurrence) \o <<": ">> ELSE <<>>) \o
        ValDebug(n.kind) \o
        (IF IsSome(e)
         THEN <<NL, "Caused by:", NL>> \o NodeDebug(heap, Unwrap(e))
         ELSE <<>>)

\* impl Debug for Error<T>, the non-alternate branch
Error_Debug(heap, id) ==
    LET n == heap[id]
        e == source(heap, id)
    IN  (IF IsSome(n.occurrence) THEN Unwrap(n.occurrence) \o <<": ">> ELSE <<>>) \o
        (IF n.kind.ty = TString \/ n.kind.ty = TStr
         THEN ValDisplay(n.kind) ELSE ValDebug(n.kind)) \o
        (IF IsSome(e)
         THEN <<NL, "Caused by:", NL>> \o NodeDebug(heap, Unwrap(e))
         ELSE <<>>)

RECURSIVE NodeDebugAlternate(_, _, _)

\* an alternate Debug that writes the source with {:?}
ErrorDebugAlternateSourceTerse(heap, id, depth) ==
    LET n == heap[id]
        e == source(heap, id)
    IN  DebugStructAlternate(<<"Error<">> \o TypeName(n.kind.ty) \o <<">">>,
            OptionStringDebugAlternate(n.occurrence, depth + 1),
            ValDebugAlternate(n.kind, depth + 1),
            IF IsSome(e)
            THEN DebugTupleAlternate("Some(", Pad(NodeDebug(heap, Unwrap(e)), depth + 2),
                                     depth + 1)
            ELSE <<"None">>,
            depth)

\* impl Debug for Error<T>, the alternate branch
Error_DebugAlternate(heap, id, depth) ==
    LET n == heap[id]
        e == source(heap, id)
    IN  DebugStructAlternate(<<"Error<">> \o TypeName(n.kind.ty) \o <<">">>,
            OptionStringDebugAlternate(n.occurrence, depth + 1),
            ValDebugAlternate(n.kind, depth + 1),
            IF IsSome(e)
            THEN DebugTupleAlternate("Some(", NodeDebugAlternate(heap, Unwrap(e), depth + 2),
                                     depth + 1)
            ELSE <<"None">>,
            depth)

\* {:#?} of an error value behind dyn StdError
NodeDebugAlternate(heap, id, depth) ==
    IF heap[id].shape \in {"link", "facade"} THEN Error_DebugAlternate(heap, id, depth)
    ELSE ValDebugAlternate(heap[id].kind, depth)

\* {:?} of an error value behind dyn StdError
NodeDebug(heap, id) ==
    IF heap[id].shape \in {"link", "facade"} THEN Error_Debug(heap, id)
    ELSE ValDebug(heap[id].kind)

\* err_kind!: impl Display for $e and impl Debug for $e forward to the link
Facade_Display(heap, id, alternate) == Error_Display(heap, id, alternate)
Facade_Debug(heap, id) == Error_Debug(heap, id)

----------------------------------------------------------------------------
(* The client's inputs. *)

\* call sites of the attach methods (what Location::caller() answers)
Sites ==
    {[file |-> "tests/test_iter.rs", line |-> "9", col |-> "19"],
     [file |-> "tests/test_iter.rs", line |-> "10", col |-> "19"]}

\* the call site of Error::from, of annotate and of map_context
FromSite == [file |-> "src/lib.rs", line |-> "754", col |-> "49"]
AnnotateSite == [file |-> "src/lib.rs", line |-> "805", col |-> "14"]
MapSite == [file |-> "src/lib.rs", line |-> "821", col |-> "14"]

\* kinds the client attaches
Kinds ==
    {Val(TStr, <<"ctx">>), Val(TString, <<"a", NL, "b">>), Val(TFunc1Error, <<"f1">>)}

\* foreign errors a failing operation returns
ForeignValues == {Val(TIoError, <<"NotFound">>), Val(TFunc1Error, <<"x", NL, "y">>)}

\* occurrence strings handed to Error::new directly
Occurrences == {None, Some(<<"src/lib.rs:100">>)}

\* kinds the client turns into a terminus link with Error::from
FromKinds == {Val(TIoError, <<"NotFound">>), Val(TFunc1Error, <<"f1">>)}

\* the types the client asks find_cause and find_chain_cause for (U: StdError)
FindTypes == {TFunc1Error, TIoError, ErrorOf(TFunc1Error), ErrorOf(TStr)}

\* the types the client asks is_chain and downcast_chain_ref for
\* (T: Display + Debug)
ChainTypes == {TStr, TFunc1Error, TIoError, ErrorOf(TFunc1Error)}

\* kinds of the err_kind! pair: the enum, and the newtype made from the enum
ErrKinds == {Val(TTestErrorKind, <<"k">>)}
FacadeKinds == {Val(TTestError, <<"k">>)}

\* the types the client asks find_kind_or_cause for (U: StdError)
KindOrCauseTypes == {TTestError, TFunc1Error, TIoError, ErrorOf(TStr)}

\* the types the client asks downcast_inner_ref and downcast_inner_mut for
\* (T: StdError)
InnerTypes == {TFunc1Error, TIoError, ErrorOf(TStr)}

\* the types the client asks downcast_inner_mut and downcast_chain_mut for
MutTypes == {TFunc1Error, TString, TIoError, ErrorOf(TFunc1Error)}

\* the types the client asks is_chain and find_chain_cause for on a chain
\* that holds an err_kind! newtype
ForwardTypes == {TTestErrorKind, TTestError, TFunc1Error}

\* kinds the client turns into an err_kind! newtype with $e::from(kind)
FacadeFromKinds == {Val(TTestErrorKind, <<"test">>), Val(TString, <<"a", NL, "b">>)}

\* the closures handed to map_context
MapOps == {"fmt"}

\* |e| MappedError(format!("Mapped: {}", e))
ApplyOp(op, heap, e) == Val(TMappedError, <<"Mapped: ">> \o NodeDisplay(heap, e, FALSE))

Ok(v) == [tag |-> "Ok", val |-> v]
Err(e) == [tag |-> "Err", err |-> e]

----------------------------------------------------------------------------
(* Context for Result<O, E>: each method as a function of the heap and the *)
(* Result it consumes, giving the heap and the Result it returns.          *)

\* a context that records a fixed location
ContextFixedLocation(heap, r, kind, loc) ==
    IF r.tag = "Ok" THEN [nodes |-> heap, res |-> r]
    ELSE [nodes |-> Append(heap, Error_new(kind, Some(r.err), Some(<<"src/lib.rs:255:22">>))),
          res |-> Err(Len(heap) + 1)]

\* a context that hands back the error it was given instead of the new link
ContextReturnsOriginal(heap, r, kind, loc) ==
    IF r.tag = "Ok" THEN [nodes |-> heap, res |-> r]
    ELSE [nodes |-> Append(heap, Error_new(kind, Some(r.err), Some(LocationToString(loc)))),
          res |-> r]

\* Context::context
context(heap, r, kind, loc) ==
    IF r.tag = "Ok" THEN [nodes |-> heap, res |-> r]
    ELSE [nodes |-> Append(heap, Error_new(kind, Some(r.err), Some(LocationToString(loc)))),
          res |-> Err(Len(heap) + 1)]

\* an annotate that links no cause
AnnotateNoCause(heap, r, loc) ==
    IF r.tag = "Ok" THEN [nodes |-> heap, res |-> r]
    ELSE [nodes |-> Append(heap, Error_new(AnnotatedError, None,
                                          Some(LocationToString(loc)))),
          res |-> Err(Len(heap) + 1)]

\* an annotate that answers Ok(Default::default()) on success
AnnotateOkDefault(heap, r, loc) ==
    IF r.tag = "Ok" THEN [nodes |-> heap, res |-> Ok("unit")]
    ELSE [nodes |-> Append(heap, Error_new(AnnotatedError, Some(r.err),
                                          Some(LocationToString(loc)))),
          res |-> Err(Len(heap) + 1)]

\* Context::annotate
annotate(heap, r, loc) ==
    IF r.tag = "Ok" THEN [nodes |-> heap, res |-> r]
    ELSE [nodes |-> Append(heap, Error_new(AnnotatedError, Some(r.err),
                                          Some(LocationToString(loc)))),
          res |-> Err(Len(heap) + 1)]

\* a map_context that calls the closure a second time
MapContextCallsTwice(heap, r, op, loc) ==
    IF r.tag = "Ok" THEN [nodes |-> heap, res |-> r, called |-> <<>>]
    ELSE LET kind == ApplyOp(op, heap, r.err)
         IN  [nodes |-> Append(heap, Error_new(kind, Some(r.err),
                                              Some(LocationToString(loc)))),
              res |-> Err(Len(heap) + 1),
              called |-> <<r.err, r.err>>]

\* Context::map_context; `called` lists the errors op was called with, in order
map_context(heap, r, op, loc) ==
    IF r.tag = "Ok" THEN [nodes |-> heap, res |-> r, called |-> <<>>]
    ELSE LET kind == ApplyOp(op, heap, r.err)
         IN  [nodes |-> Append(heap, Error_new(kind, Some(r.err),
                                              Some(LocationToString(loc)))),
              res |-> Err(Len(heap) + 1),
              called |-> <<r.err>>]

\* a From that captures no location
ErrorFromNoLocation(e, loc) == Error_new(e, None, None)

\* impl From<T> for Error<T>
Error_from(e, loc) == Error_new(e, None, Some(LocationToString(loc)))

----------------------------------------------------------------------------
(* The state machine: a client that holds one Result, fails, attaches      *)
(* context and inspects the error.                                         *)

NoIter == [live |-> FALSE, current |-> None]
Call(op, arg, recv, ret) == [op |-> op, arg |-> arg, recv |-> recv, ret |-> ret]

IsLink(heap, id) == heap[id].shape = "link"
HasRoom == Len(nodes) < MaxNodes
\* the client holds an error whose static type is a link
HoldsLink == res.tag = "Err" /\ IsLink(nodes, res.err)

Init ==
    /\ nodes = <<>>
    /\ res \in {Ok(v) : v \in {"unit", "42"}}
    /\ it = NoIter
    /\ yielded = <<>>
    /\ call = Call("init", None, None, None)

\* a fallible operation fails with a foreign error
RaiseForeign(value) ==
    /\ res.tag = "Ok" /\ HasRoom
    /\ nodes' = Append(nodes, Foreign(value))
    /\ res' = Err(Len(nodes) + 1)
    /\ call' = Call("raise", value, None, None)
    /\ UNCHANGED <<it, yielded>>

\* the client builds a terminus link with Error::new(kind, None, occurrence)
DoNew(kind, occurrence) ==
    /\ res.tag = "Ok" /\ HasRoom
    /\ nodes' = Append(nodes, Error_new(kind, None, occurrence))
    /\ res' = Err(Len(nodes) + 1)
    /\ call' = Call("new", [kind |-> kind, occurrence |-> occurrence], None, None)
    /\ UNCHANGED <<it, yielded>>

\* the client builds a terminus link with Error::from(kind)
DoFrom(kind, loc) ==
    /\ res.tag = "Ok" /\ HasRoom
    /\ nodes' = Append(nodes, Error_from(kind, loc))
    /\ res' = Err(Len(nodes) + 1)
    /\ call' = Call("from", [kind |-> kind, loc |-> loc], None, None)
    /\ UNCHANGED <<it, yielded>>

\* an attach method consumes the Result, so no iterator over it is still alive
Attached(op, arg, r, ret) ==
    /\ nodes' = r.nodes
    /\ res' = r.res
    /\ it' = NoIter
    /\ yielded' = <<>>
    /\ call' = Call(op, arg, None, ret)

DoContext(kind, loc) ==
    /\ res.tag = "Ok" \/ HasRoom
    /\ Attached("context", [kind |-> kind, loc |-> loc], context(nodes, res, kind, loc), None)

DoAnnotate(loc) ==
    /\ res.tag = "Ok" \/ HasRoom
    /\ Attached("annotate", [loc |-> loc], annotate(nodes, res, loc), None)

\* the call records the calls of the closure it made
DoMapContext(op, loc) ==
    /\ res.tag = "Ok" \/ HasRoom
    /\ LET r == map_context(nodes, res, op, loc)
       IN  Attached("map_context", [op |-> op, loc |-> loc], r, r.called)

\* a call that only reads the error
Query(op, arg, recv, ret) ==
    /\ call' = Call(op, arg, Some(recv), ret)
    /\ UNCHANGED <<nodes, res, it, yielded>>

\* let it = err.iter()
DoIter ==
    /\ HoldsLink
    /\ it' = [live |-> TRUE, current |-> iter(res.err).current]
    /\ yielded' = <<>>
    /\ call' = Call("iter", None, Some(res.err), None)
    /\ UNCHANGED <<nodes, res>>

\* it.next()
DoNext ==
    /\ it.live
    /\ LET s == ErrorIter_next(nodes, it.current)
       IN  /\ it' = [live |-> TRUE, current |-> s.current]
           /\ yielded' = IF IsSome(s.ret) THEN Append(yielded, Unwrap(s.ret)) ELSE yielded
           /\ call' = Call("next", None, None, s.ret)
    /\ UNCHANGED <<nodes, res>>

\* a second traversal that goes on from the cursor of the one under way
DoIterCollectSharesCursor ==
    /\ HoldsLink
    /\ Query("collect", None, res.err,
             IterCollect(nodes, IF it.live THEN it.current ELSE iter(res.err).current,
                         Len(nodes) + 1))

\* for e in err.iter() { .. }: a traversal of its own, run to its end; it may
\* start while the iterator `it` is part way through the same chain
DoIterCollect ==
    /\ HoldsLink
    /\ Query("collect", None, res.err, IterAll(nodes, res.err))

DoRootCause ==
    /\ HoldsLink
    /\ Query("root_cause", None, res.err, root_cause(nodes, res.err))

DoFindCause(U) ==
    /\ HoldsLink
    /\ Query("find_cause", U, res.err, find_cause(nodes, res.err, U))

DoFindChainCause(U) ==
    /\ HoldsLink
    /\ Query("find_chain_cause", U, res.err, find_chain_cause(nodes, res.err, U))

DoFindKindOrCause(U) ==
    /\ HoldsLink
    /\ Query("find_kind_or_cause", U, res.err, find_kind_or_cause(nodes, res.err, U))

\* result.map_err(TestError::from): the held Error<TestErrorKind> becomes a
\* TestError (an Error<String> a TextError)
DoIntoFacade ==
    /\ HoldsLink /\ nodes[res.err].kind.ty \in FacadeKindTypes
    /\ nodes' = [nodes EXCEPT ![res.err] = IntoFacade(nodes[res.err])]
    /\ it' = NoIter
    /\ yielded' = <<>>
    /\ call' = Call("into_facade", None, Some(res.err), None)
    /\ UNCHANGED res

\* ErrorDown on the link the client holds
DoIsChain(T) ==
    /\ HoldsLink
    /\ Query("is_chain", T, res.err, Error_is_chain(nodes[res.err], T))

DoDowncastChainRef(T) ==
    /\ HoldsLink
    /\ Query("downcast_chain_ref", T, res.err, Error_downcast_chain_ref(nodes, res.err, T))

\* ErrorDown on an error value seen as dyn StdError: the held error boxed, or
\* one of its causes reached through source()
DoDynIsChain(id, T) ==
    /\ res.tag = "Err" /\ id \in 1..Len(nodes)
    /\ Query("dyn_is_chain", T, id, dyn_is_chain(nodes, id, T))

DoDynDowncastChainRef(id, T) ==
    /\ res.tag = "Err" /\ id \in 1..Len(nodes)
    /\ Query("dyn_downcast_chain_ref", T, id, dyn_downcast_chain_ref(nodes, id, T))

\* the inner downcasts on the link the client holds; the mutable reference
\* is taken and dropped without a write
DoDowncastInnerRef(T) ==
    /\ HoldsLink
    /\ Query("downcast_inner_ref", T, res.err, Error_downcast_inner_ref(nodes, res.err, T))

DoDowncastInnerMut(T) ==
    /\ HoldsLink
    /\ Query("downcast_inner_mut", T, res.err, Error_downcast_inner_mut(nodes, res.err, T))

\* the inner downcasts on an error value seen as dyn StdError
DoDynDowncastInnerRef(id, T) ==
    /\ res.tag = "Err" /\ id \in 1..Len(nodes)
    /\ Query("dyn_downcast_inner_ref", T, id, dyn_downcast_inner_ref(nodes, id, T))

DoDynDowncastInnerMut(id, T) ==
    /\ res.tag = "Err" /\ id \in 1..Len(nodes)
    /\ Query("dyn_downcast_inner_mut", T, id, dyn_downcast_inner_mut(nodes, id, T))

\* *k = value through the &mut T a downcast_inner_mut returned: the place the
\* reference points at takes the value
WriteThrough(heap, r, value) ==
    IF r = None THEN heap
    ELSE [heap EXCEPT ![Unwrap(r).node].kind = value]

\* a mutable borrow ends every iterator over the error
Mutation(op, arg, recv, ret, heap) ==
    /\ nodes' = heap
    /\ it' = NoIter
    /\ yielded' = <<>>
    /\ call' = Call(op, arg, Some(recv), ret)
    /\ UNCHANGED res

\* if let Some(k) = err.downcast_inner_mut::<T>() { *k = value }
DoDowncastInnerMutWrite(T, value) ==
    /\ HoldsLink
    /\ LET r == Error_downcast_inner_mut(nodes, res.err, T)
       IN  Mutation("downcast_inner_mut", [T |-> T, value |-> value], res.err, r,
                    WriteThrough(nodes, r, value))

\* if let Some(e) = err.downcast_chain_mut::<T>() {
\*     *e.downcast_inner_mut::<T>().unwrap() = value }
\* (the fields of Error<T> are private and it has no DerefMut, so the kind of
\* the link the reference names is written through its downcast_inner_mut)
DoDowncastChainMutWrite(T, value) ==
    /\ HoldsLink
    /\ LET e == Error_downcast_chain_mut(nodes, res.err, T)
           r == IF e = None THEN None
                ELSE Error_downcast_inner_mut(nodes, Unwrap(e), T)
       IN  Mutation("downcast_chain_mut", [T |-> T, value |-> value], res.err, e,
                    WriteThrough(nodes, r, value))

\* one method of ErrorDown called on the held link, directly or through a
\* trait object of it; a mutable reference is taken and dropped without a write
DoErrorDown(impl, op, T) ==
    /\ HoldsLink
    /\ Query(op, [impl |-> impl, T |-> T], res.err, ErrorDown(impl, op, nodes, res.err, T))

\* err.kind()
DoKind ==
    /\ HoldsLink
    /\ Query("kind", None, res.err, Kind(nodes[res.err]))

\* format!("{}", err) and format!("{:#}", err)
DoDisplay(alternate) ==
    /\ HoldsLink
    /\ Query("display", alternate, res.err, Error_Display(nodes, res.err, alternate))

\* format!("{:?}", err)
DoDebug ==
    /\ HoldsLink
    /\ Query("debug", FALSE, res.err, Error_Debug(nodes, res.err))

\* format!("{:#?}", err)
DoDebugAlternate ==
    /\ HoldsLink
    /\ Query("debug_alternate", TRUE, res.err, Error_DebugAlternate(nodes, res.err, 0))

\* the client holds an err_kind! newtype
HoldsFacade == res.tag = "Err" /\ nodes[res.err].shape = "facade"

\* Err(TestError::from(kind))
DoFacadeFrom(k) ==
    /\ res.tag = "Ok" /\ HasRoom
    /\ nodes' = Append(nodes, Facade_from_kind(k))
    /\ res' = Err(Len(nodes) + 1)
    /\ call' = Call("facade_from", k, None, None)
    /\ UNCHANGED <<it, yielded>>

\* err.source() on the link the client holds
DoSource ==
    /\ HoldsLink
    /\ Query("source", None, res.err, Error_source(nodes[res.err]))

\* kind(), source(), {}, {:#} and {:?} of the newtype the client holds
DoFacadeKind ==
    /\ HoldsFacade
    /\ Query("facade_kind", None, res.err, Facade_kind(nodes[res.err]))

DoFacadeSource ==
    /\ HoldsFacade
    /\ Query("facade_source", None, res.err, source(nodes, res.err))

DoFacadeDisplay(alternate) ==
    /\ HoldsFacade
    /\ Query("facade_display", alternate, res.err, Facade_Display(nodes, res.err, alternate))

DoFacadeDebug ==
    /\ HoldsFacade
    /\ Query("facade_debug", FALSE, res.err, Facade_Debug(nodes, res.err))

\* failing and attaching context
\* the link the client holds, moved into a kind value of type Error<K>
KindLink(heap, id) == [ty |-> type_id(heap[id]), v |-> <<"link", id>>]

IsKindLink(k) == k.ty # <<>> /\ k.ty[1] = "Error"

\* the links whose kind is itself a link
NestedLinks(heap) == {id \in DOMAIN heap : IsKindLink(heap[id].kind)}

\* other().context(err): a second operation fails with a foreign error, and the
\* link the client holds from the first becomes the kind of the new link
DoContextLink(value, loc) ==
    /\ HoldsLink
    /\ Cardinality(NestedLinks(nodes)) < MaxNested
    /\ LET kind == KindLink(nodes, res.err)
           failed == Append(nodes, Foreign(value))
       IN  Attached("context", [kind |-> kind, loc |-> loc],
                    context(failed, Err(Len(failed)), kind, loc), None)

\* Error::new(err, None, None): the link the client holds becomes the kind of
\* a new terminus link
DoNewLink ==
    /\ HoldsLink
    /\ Cardinality(NestedLinks(nodes)) < MaxNested
    /\ LET kind == KindLink(nodes, res.err)
       IN  /\ nodes' = Append(nodes, Error_new(kind, None, None))
           /\ res' = Err(Len(nodes) + 1)
           /\ it' = NoIter
           /\ yielded' = <<>>
           /\ call' = Call("new", [kind |-> kind, occurrence |-> None], None, None)

Build ==
    \/ \E value \in ForeignValues : RaiseForeign(value)
    \/ \E kind \in Kinds, occurrence \in Occurrences : DoNew(kind, occurrence)
    \/ \E kind \in FromKinds : DoFrom(kind, FromSite)
    \/ \E kind \in Kinds, loc \in Sites : DoContext(kind, loc)
    \/ DoAnnotate(AnnotateSite)
    \/ \E op \in MapOps : DoMapContext(op, MapSite)

\* building, iterating and searching the chain
Next ==
    \/ Build
    \/ DoIter
    \/ DoNext
    \/ DoRootCause
    \/ \E U \in FindTypes : DoFindCause(U)
    \/ \E U \in FindTypes : DoFindChainCause(U)

Spec == Init /\ [][Next]_vars

\* building and downcasting
NextDown ==
    \/ Build
    \/ \E T \in ChainTypes : DoIsChain(T)
    \/ \E T \in ChainTypes : DoDowncastChainRef(T)
    \/ \E id \in 1..MaxNodes, T \in ChainTypes : DoDynIsChain(id, T)
    \/ \E id \in 1..MaxNodes, T \in ChainTypes : DoDynDowncastChainRef(id, T)

SpecDown == Init /\ [][NextDown]_vars

\* building and rendering
NextFmt ==
    \/ Build
    \/ DoKind
    \/ \E alternate \in BOOLEAN : DoDisplay(alternate)
    \/ DoDebug
    \/ DoDebugAlternate

SpecFmt == Init /\ [][NextFmt]_vars

\* building, also with an err_kind! pair, and looking up a kind or a cause
NextKind ==
    \/ Build
    \/ \E kind \in FacadeKinds : DoFrom(kind, FromSite)
    \/ \E kind \in ErrKinds : DoContext(kind, MapSite)
    \/ DoIntoFacade
    \/ \E U \in KindOrCauseTypes : DoFindKindOrCause(U)

SpecKind == Init /\ [][NextKind]_vars

\* building and downcasting to the kind
NextInner ==
    \/ Build
    \/ \E T \in InnerTypes : DoDowncastInnerRef(T)
    \/ \E T \in InnerTypes : DoDowncastInnerMut(T)
    \/ \E id \in 1..MaxNodes, T \in InnerTypes : DoDynDowncastInnerRef(id, T)
    \/ \E id \in 1..MaxNodes, T \in InnerTypes : DoDynDowncastInnerMut(id, T)

SpecInner == Init /\ [][NextInner]_vars

\* building and searching a link by its kind type, in both spellings
NextFind ==
    \/ Build
    \/ \E U \in FindTypes : DoFindChainCause(U)
    \/ \E U \in FindTypes : DoFindCause(ErrorOf(U))

SpecFind == Init /\ [][NextFind]_vars

\* building an err_kind! newtype, from a kind or from a link, and using it
NextFacade ==
    \/ Build
    \/ \E kind \in ErrKinds : DoContext(kind, MapSite)
    \/ \E k \in FacadeFromKinds : DoFacadeFrom(k)
    \/ DoIntoFacade
    \/ DoKind
    \/ DoSource
    \/ \E alternate \in BOOLEAN : DoDisplay(alternate)
    \/ DoDebug
    \/ DoFacadeKind
    \/ DoFacadeSource
    \/ \E alternate \in BOOLEAN : DoFacadeDisplay(alternate)
    \/ DoFacadeDebug

SpecFacade == Init /\ [][NextFacade]_vars

\* a link that holds a link as its kind, iterated and searched
NextNested ==
    \/ \E value \in ForeignValues : RaiseForeign(value)
    \/ \E kind \in FromKinds : DoContext(kind, MapSite)
    \/ \E value \in ForeignValues : DoContextLink(value, MapSite)
    \/ DoNewLink
    \/ DoIter
    \/ DoNext
    \/ DoRootCause
    \/ \E U \in FindTypes : DoFindCause(U)
    \/ \E U \in FindTypes : DoFindChainCause(U)
    \/ \E U \in FindTypes : DoFindKindOrCause(U)

SpecNested == Init /\ [][NextNested]_vars

\* the value the client writes through a mutable reference to a T
Written(T) == Val(T, <<"changed">>)

\* writing the kind of the held link through the mutable downcasts
NextMut ==
    \/ \E value \in ForeignValues : RaiseForeign(value)
    \/ \E kind \in Kinds, occurrence \in Occurrences : DoNew(kind, occurrence)
    \/ \E kind \in Kinds : DoContext(kind, MapSite)
    \/ \E T \in MutTypes : DoDowncastInnerMutWrite(T, Written(T))
    \/ \E T \in MutTypes : DoDowncastChainMutWrite(T, Written(T))
    \/ DoKind
    \/ DoIter
    \/ DoNext

SpecMut == Init /\ [][NextMut]_vars

\* every reading operation, on chains over a foreign error
NextRead ==
    \/ \E value \in ForeignValues : RaiseForeign(value)
    \/ \E kind \in FromKinds : DoContext(kind, MapSite)
    \/ DoIter
    \/ DoNext
    \/ DoIterCollect
    \/ DoRootCause
    \/ \E U \in FindTypes : DoFindCause(U)
    \/ \E U \in FindTypes : DoFindChainCause(U)
    \/ \E U \in FindTypes : DoFindKindOrCause(U)
    \/ \E alternate \in BOOLEAN : DoDisplay(alternate)
    \/ DoDebug
    \/ DoDebugAlternate

SpecRead == Init /\ [][NextRead]_vars

\* the methods of ErrorDown on a held link, directly and type-erased
NextErased ==
    \/ \E value \in ForeignValues : RaiseForeign(value)
    \/ \E kind \in FromKinds : DoFrom(kind, FromSite)
    \/ \E kind \in Kinds : DoContext(kind, MapSite)
    \/ \E impl \in ErrorDownImpls, op \in ErrorDownOps, T \in FindTypes :
          DoErrorDown(impl, op, T)

SpecErased == Init /\ [][NextErased]_vars

\* chains that hold an err_kind! newtype, iterated and searched
NextForward ==
    \/ \E value \in ForeignValues : RaiseForeign(value)
    \/ \E kind \in ErrKinds \cup FromKinds : DoContext(kind, MapSite)
    \/ DoIntoFacade
    \/ DoFacadeSource
    \/ DoIter
    \/ DoNext
    \/ \E id \in 1..MaxNodes, T \in ForwardTypes : DoDynIsChain(id, T)
    \/ \E U \in ForwardTypes : DoFindChainCause(U)

SpecForward == Init /\ [][NextForward]_vars

----------------------------------------------------------------------------
(* Properties.  The chain of an error is what following the cause fields   *)
(* from it gives, the error itself first.                                  *)

RECURSIVE CauseChainFrom(_, _, _)
CauseChainFrom(heap, id, fuel) ==
    IF fuel = 0 THEN <<>>
    ELSE <<id>> \o (IF heap[id].error_cause = None THEN <<>>
                    ELSE CauseChainFrom(heap, heap[id].error_cause[1], fuel - 1))

CauseChain(heap, id) == CauseChainFrom(heap, id, Len(heap))

AttachOps == {"context", "annotate", "map_context"}

\* the step is an attach method applied to Err(e)
AttachOnErr == res.tag = "Err" /\ call'.op \in AttachOps

\* the kind the attach call of this step was to give its link
AttachKind ==
    CASE call'.op = "context" -> call'.arg.kind
      [] call'.op = "annotate" -> AnnotatedError
      [] call'.op = "map_context" -> ApplyOp(call'.arg.op, nodes, res.err)

\* C1: context(kind) applied to Err(e) returns Err(link) where link.kind()
\* is the supplied kind, link.source() is the original error e, the same
\* value as before the call, and the link's occurrence is Some(the call
\* site's location); annotate and map_context build their link the same way
\* with their own kind (the marker, the kind the closure computes from e).
C1_AttachBuildsLink ==
    [][AttachOnErr =>
        /\ res'.tag = "Err"
        /\ res'.err \notin 1..Len(nodes)
        /\ nodes'[res'.err].shape = "link"
        /\ Kind(nodes'[res'.err]) = AttachKind
        /\ source(nodes', res'.err) = Some(res.err)
        /\ nodes'[res.err] = nodes[res.err]
        /\ nodes'[res'.err].occurrence = Some(LocationToString(call'.arg.loc))]_vars

\* a context call has wrapped a failure
C1_Witness ==
    /\ call.op = "context" /\ res.tag = "Err"
    /\ source(nodes, res.err) = Some(1)
    /\ Kind(nodes[res.err]) = Val(TFunc1Error, <<"f1">>)

\* C2: an attach call on a failing result gives an error whose chain is the
\* new link followed by the whole chain of the previous error in unchanged
\* order and with unchanged nodes; so after any sequence of attach calls the
\* chain holds every value built, the most recent first, and the original
\* failure stays its last element.
C2_AttachPreservesChain ==
    [][AttachOnErr =>
        /\ CauseChain(nodes', res'.err) = <<res'.err>> \o CauseChain(nodes, res.err)
        /\ \A id \in 1..Len(nodes) : nodes'[id] = nodes[id]
        /\ Last(CauseChain(nodes', res'.err)) = Last(CauseChain(nodes, res.err))
        /\ CauseChain(nodes', res'.err) =
               [i \in 1..Len(nodes') |-> Len(nodes') + 1 - i]]_vars

\* two attach calls in a row over an original failure
C2_Witness ==
    /\ call.op \in AttachOps /\ res.tag = "Err"
    /\ CauseChain(nodes, res.err) = <<3, 2, 1>>
    /\ nodes[2].kind.ty = TAnnotatedError

\* how many nodes an iterator at `current` has still to yield
Remaining(heap, current) ==
    IF IsSome(current) THEN Len(CauseChain(heap, Unwrap(current))) ELSE 0

\* C3: iterating a chain built by construction and attach calls terminates:
\* every next() that yields a node leaves strictly fewer nodes to yield, an
\* iterator never yields more nodes than there are error values, and when it
\* is exhausted the last node it yielded has no further cause.
C3_IterTerminates ==
    [][(it.live /\ call'.op = "next") =>
        /\ IsSome(call'.ret) => Remaining(nodes', it'.current) < Remaining(nodes, it.current)
        /\ Len(yielded') <= Len(nodes')
        /\ ~IsSome(call'.ret) => it'.current = None
        /\ (it'.current = None /\ yielded' # <<>>) =>
               source(nodes', Last(yielded')) = None]_vars

\* an iterator has run a chain of three to its end
C3_Witness ==
    /\ it.live /\ it.current = None /\ call.op = "next" /\ call.ret = None
    /\ Len(yielded) = 3

\* the links of the held error come from attach calls over a foreign leaf
OverForeignLeaf ==
    /\ res.tag = "Err"
    /\ nodes[1].shape = "raw"
    /\ \A id \in 2..Len(nodes) : nodes[id].shape = "link"

\* C4: iter() on an error built by N attach calls over a foreign leaf yields
\* exactly N + 1 elements: the N links, the most recently attached first
\* (the receiver itself), then the leaf.  Ids are given in order of
\* construction, so that is N + 1, N, ..., 1.
C4_IterOrder ==
    (it.live /\ OverForeignLeaf) =>
        /\ Len(yielded) <= Len(nodes)
        /\ \A i \in 1..Len(yielded) : yielded[i] = Len(nodes) + 1 - i
        /\ it.current = None => Len(yielded) = (Len(nodes) - 1) + 1
        /\ (it.current = None /\ Len(nodes) > 1) =>
               /\ yielded[1] = res.err
               /\ nodes[Last(yielded)].shape = "raw"

\* two context calls over an io::Error, iterated to the end
C4_Witness ==
    /\ it.live /\ it.current = None /\ OverForeignLeaf
    /\ yielded = <<3, 2, 1>>
    /\ nodes[1].kind.ty = TIoError
    /\ call.op = "next"

\* the receiver of the last call
Recv == Unwrap(call.recv)

\* the node is a link whose kind has type T
IsLinkOfKind(heap, id, T) == heap[id].shape = "link" /\ heap[id].kind.ty = T

\* the node's own concrete type is T: a foreign error of type T, or a link
\* Error<K> when T is Error<K>
IsOfType(heap, id, T) ==
    \/ heap[id].shape = "raw" /\ heap[id].kind.ty = T
    \/ heap[id].shape = "facade" /\ T = FacadeType(heap[id].kind.ty)
    \/ heap[id].shape = "link" /\ T = ErrorOf(heap[id].kind.ty)

\* ret is the first node of chain c whose position is in M, None if M is empty
IsFirstOf(ret, c, M) ==
    /\ (ret = None) <=> (M = {})
    /\ M # {} => \E i \in M : ret = Some(c[i]) /\ \A j \in M : i <= j

\* C5: find_chain_cause::<T>() returns the first node, scanning from the
\* receiver inclusive and following causes outermost to innermost, that is a
\* link whose kind type is exactly T (on outer(A) -> mid(B) -> inner(A) the
\* outer one); it returns None exactly when the chain has no such link.
C5_FindChainCauseFirst ==
    call.op = "find_chain_cause" =>
        LET c == CauseChain(nodes, Recv)
        IN  IsFirstOf(call.ret, c, {i \in DOMAIN c : IsLinkOfKind(nodes, c[i], call.arg)})

\* outer(kind A) -> mid(kind B) -> inner(kind A), asked for A: the outer link
C5_Witness ==
    /\ call.op = "find_chain_cause" /\ call.arg = TFunc1Error
    /\ CauseChain(nodes, Recv) = <<3, 2, 1>>
    /\ IsLinkOfKind(nodes, 3, TFunc1Error)
    /\ IsLinkOfKind(nodes, 2, TStr)
    /\ IsLinkOfKind(nodes, 1, TFunc1Error)
    /\ call.ret = Some(3)

\* C6: find_cause::<T>() returns the first node of the chain, the receiver
\* included, whose concrete type is exactly T, and None when there is none; a
\* link whose kind type is T does not match, so over a foreign leaf of type T
\* the answer is that leaf, as it was raised.
C6_FindCauseFirst ==
    call.op = "find_cause" =>
        LET c == CauseChain(nodes, Recv)
        IN  /\ IsFirstOf(call.ret, c, {i \in DOMAIN c : IsOfType(nodes, c[i], call.arg)})
            /\ IsSome(call.ret) => ~IsLinkOfKind(nodes, Unwrap(call.ret), call.arg)
            /\ (OverForeignLeaf /\ nodes[1].kind.ty = call.arg) =>
                   /\ call.ret = Some(1)
                   /\ nodes[1] \in {Foreign(v) : v \in ForeignValues}

\* a link of kind type Func1Error over a foreign Func1Error: the leaf is found
C6_Witness ==
    /\ call.op = "find_cause" /\ call.arg = TFunc1Error
    /\ Len(nodes) = 3 /\ Recv = 3
    /\ nodes[1] = Foreign(Val(TFunc1Error, <<"x", NL, "y">>))
    /\ IsLinkOfKind(nodes, 3, TFunc1Error)
    /\ call.ret = Some(1)

\* C7: is_chain::<T>() on a link, called directly or through dyn StdError, is
\* true iff the link's kind type is exactly T; downcast_chain_ref::<T>() is
\* Some of the same link for the exact kind type and None for every other
\* type; on an erased value that is not a link (a raw error of type T) both
\* answer no.
C7_ExactKindType ==
    /\ call.op \in {"is_chain", "dyn_is_chain"} =>
           call.ret = IsLinkOfKind(nodes, Recv, call.arg)
    /\ call.op \in {"downcast_chain_ref", "dyn_downcast_chain_ref"} =>
           /\ call.ret = IF IsLinkOfKind(nodes, Recv, call.arg) THEN Some(Recv) ELSE None
           /\ IsSome(call.ret) => Kind(nodes[Unwrap(call.ret)]) = Kind(nodes[Recv])
    /\ (call.op = "dyn_is_chain" /\ nodes[Recv].shape = "raw") => call.ret = FALSE
    /\ (call.op = "dyn_downcast_chain_ref" /\ nodes[Recv].shape = "raw") => call.ret = None

\* a cause reached through source() is downcast to the link it is
C7_Witness ==
    /\ call.op = "dyn_downcast_chain_ref" /\ call.arg = TFunc1Error
    /\ Len(nodes) = 3 /\ Recv = 2
    /\ nodes[1] = Foreign(Val(TFunc1Error, <<"x", NL, "y">>))
    /\ call.ret = Some(2)

\* C8: root_cause() on a link returns Some; the node is the last of the
\* receiver's chain and has no cause; for a link with no cause it is the link
\* itself, and for attached links over a foreign leaf it is that leaf, with
\* the type and content it was raised with.
C8_RootCauseIsLast ==
    call.op = "root_cause" =>
        /\ IsSome(call.ret)
        /\ Unwrap(call.ret) = Last(CauseChain(nodes, Recv))
        /\ nodes[Unwrap(call.ret)].error_cause = None
        /\ nodes[Recv].error_cause = None => call.ret = Some(Recv)
        /\ OverForeignLeaf =>
               /\ call.ret = Some(1)
               /\ nodes[1] \in {Foreign(v) : v \in ForeignValues}

\* two links over an io::Error: the root cause is the io::Error
C8_Witness ==
    /\ call.op = "root_cause" /\ Len(nodes) = 3 /\ Recv = 3
    /\ nodes[1] = Foreign(Val(TIoError, <<"NotFound">>))
    /\ call.ret = Some(1)

\* a text without a line break
OneLine(s) == \A i \in DOMAIN s : s[i] # NL

\* how a link shows its kind in Debug: plain text as it is, others by Debug
KindRendering(k) == IF k.ty \in {TString, TStr} THEN ValDisplay(k) ELSE ValDebug(k)

\* a link's own part of the Debug output: the occurrence tag, then the kind
LinkRendering(n) ==
    (IF IsSome(n.occurrence) THEN Unwrap(n.occurrence) \o <<": ">> ELSE <<>>)
        \o KindRendering(n.kind)

\* the links of chain c from position i on, each followed by the separator
\* line, then the leaf's own Debug
RECURSIVE ChainRendering(_, _, _)
ChainRendering(heap, c, i) ==
    IF i >= Len(c) THEN ValDebug(heap[c[i]].kind)
    ELSE LinkRendering(heap[c[i]]) \o <<NL, "Caused by:", NL>>
             \o ChainRendering(heap, c, i + 1)

\* the last call was {:?} of N >= 1 links over a foreign leaf
DebugOverLeaf == call.op = "debug" /\ OverForeignLeaf /\ Recv = Len(nodes)

\* the output has 2N + 1 lines, the separators on lines 2, 4, ..., 2N
SeparatorsOnEvenLines ==
    LET N == Len(nodes) - 1
        L == Lines(call.ret)
    IN  /\ Len(L) = 2 * N + 1
        /\ \A i \in 1..N : L[2 * i] = <<"Caused by:">>

AllKindsOneLine == \A id \in 2..Len(nodes) : OneLine(KindRendering(nodes[id].kind))

\* C9 as claimed: the lines are counted whenever every kind is on one line.
C9_AsClaimed ==
    DebugOverLeaf =>
        /\ call.ret = ChainRendering(nodes, CauseChain(nodes, Recv), 1)
        /\ AllKindsOneLine => SeparatorsOnEvenLines

\* C9: non-alternate Debug of N links over a foreign leaf renders the chain
\* outermost first: each link as its occurrence tag and its kind, each
\* followed by the line 'Caused by:', then the leaf's own Debug; when every
\* kind and the leaf's Debug are on one line each, the output has 2N + 1
\* lines with the separators on lines 2, 4, ..., 2N.
C9_DebugChain ==
    DebugOverLeaf =>
        /\ call.ret = ChainRendering(nodes, CauseChain(nodes, Recv), 1)
        /\ (AllKindsOneLine /\ OneLine(ValDebug(nodes[1].kind))) => SeparatorsOnEvenLines

\* two contexts over an io::Error give five lines
C9_Witness ==
    /\ DebugOverLeaf /\ Len(nodes) = 3
    /\ nodes[1].kind.ty = TIoError
    /\ AllKindsOneLine
    /\ Len(Lines(call.ret)) = 5

\* C10: non-alternate Display of a link is exactly the Display of its kind:
\* no occurrence tag, no 'Caused by:', nothing of any cause, whatever the
\* depth of the chain.
C10_DisplayTerse ==
    (call.op = "display" /\ call.arg = FALSE) =>
        /\ call.ret = ValDisplay(Kind(nodes[Recv]))
        /\ \A i \in DOMAIN call.ret : call.ret[i] \notin {"Caused by:", ": "}

\* {} of a link with two causes below it
C10_Witness ==
    /\ call.op = "display" /\ call.arg = FALSE
    /\ CauseChain(nodes, Recv) = <<3, 2, 1>>
    /\ call.ret = <<"ctx">>

\* the Display forms of the nodes of chain c from position i on, each cause
\* introduced by a line break, 'Caused by:', a line break and two spaces
RECURSIVE AlternateRendering(_, _, _)
AlternateRendering(heap, c, i) ==
    ValDisplay(heap[c[i]].kind) \o
        (IF i >= Len(c) THEN <<>>
         ELSE <<NL, "Caused by:", NL, "  ">> \o AlternateRendering(heap, c, i + 1))

\* how often token t occurs in text s
Count(s, t) == Cardinality({i \in DOMAIN s : s[i] = t})

\* C11: alternate Display ({:#}) of a link is the kind's Display form and,
\* iff the link has a cause, a line break, 'Caused by:', a line break and two
\* spaces followed by the cause's alternate Display, and so on down the whole
\* chain to the leaf (one 'Caused by:' per cause edge); for a link with no
\* cause it is the non-alternate Display.
C11_DisplayAlternate ==
    (call.op = "display" /\ call.arg = TRUE) =>
        LET c == CauseChain(nodes, Recv)
        IN  /\ call.ret = AlternateRendering(nodes, c, 1)
            /\ Count(call.ret, "Caused by:") = Len(c) - 1
            /\ (source(nodes, Recv) = None) <=> (Count(call.ret, "Caused by:") = 0)
            /\ source(nodes, Recv) = None => call.ret = ValDisplay(Kind(nodes[Recv]))

\* {:#} of two links over an io::Error
C11_Witness ==
    /\ call.op = "display" /\ call.arg = TRUE
    /\ CauseChain(nodes, Recv) = <<3, 2, 1>>
    /\ nodes[1] = Foreign(Val(TIoError, <<"NotFound">>))
    /\ call.ret = <<"ctx", NL, "Caused by:", NL, "  ", "ctx", NL, "Caused by:", NL, "  ",
                    "entity not found">>

\* C12: context, annotate and map_context applied to Ok(v) each return Ok(v)
\* with v unchanged, construct no link, and map_context does not call the
\* closure that computes the kind.
C12_AttachOnOkPassesThrough ==
    [][(res.tag = "Ok" /\ call'.op \in AttachOps) =>
        /\ res' = res
        /\ nodes' = nodes
        /\ call'.op = "map_context" => call'.ret = <<>>]_vars

\* map_context on Ok(42): still Ok(42), nothing built, the closure not called
C12_Witness ==
    /\ call.op = "map_context" /\ res = Ok("42")
    /\ nodes = <<>> /\ call.ret = <<>>

\* C13: map_context(op) applied to Err(e) calls op exactly once, with the
\* original error e as it is before the call boxes it, and returns a link
\* whose kind is the value op returned and whose cause is that same e.
C13_MapContextCallsOnce ==
    [][(res.tag = "Err" /\ call'.op = "map_context") =>
        /\ call'.ret = <<res.err>>
        /\ res'.tag = "Err"
        /\ nodes'[res'.err].shape = "link"
        /\ Kind(nodes'[res'.err]) =
               Val(TMappedError, <<"Mapped: ">> \o ValDisplay(nodes[res.err].kind))
        /\ source(nodes', res'.err) = Some(res.err)
        /\ nodes'[res.err] = nodes[res.err]]_vars

\* map_context over an io::Error: the kind is made of the io::Error's Display
C13_Witness ==
    /\ call.op = "map_context" /\ res = Err(2) /\ call.ret = <<1>>
    /\ nodes[1] = Foreign(Val(TIoError, <<"NotFound">>))
    /\ Kind(nodes[2]) = Val(TMappedError, <<"Mapped: ", "entity not found">>)
    /\ source(nodes, 2) = Some(1)

\* the last call built a link from a kind the client supplied
Constructed == call.op \in {"new", "from", "context"} /\ res.tag = "Err"

\* C14: kind() called on the link that Error::new(k, None, occurrence),
\* context(k) on a failure or Error::from(k) has just returned answers k; and
\* Error::from(k) returns a terminus link (no cause) whose occurrence is the
\* location of the call.
C14_KindRoundTrip ==
    [][/\ (Constructed /\ call'.op = "kind") =>
              /\ Unwrap(call'.recv) = res.err
              /\ call'.ret = call.arg.kind
       /\ call'.op = "from" =>
              /\ res'.tag = "Err"
              /\ nodes'[res'.err].shape = "link"
              /\ Kind(nodes'[res'.err]) = call'.arg.kind
              /\ source(nodes', res'.err) = None
              /\ nodes'[res'.err].occurrence = Some(LocationToString(call'.arg.loc))]_vars

\* kind() of Error::from(io::Error): the io::Error, at the call's location
C14_Witness ==
    /\ call.op = "kind" /\ call.ret = Val(TIoError, <<"NotFound">>)
    /\ nodes[Recv].error_cause = None
    /\ nodes[Recv].occurrence = Some(<<"src/lib.rs", ":", "754", ":", "49">>)

\* the positions of chain c whose node is a link of kind type T, and those
\* whose node is itself of type T
LinksOfKind(c, T) == {i \in DOMAIN c : IsLinkOfKind(nodes, c[i], T)}
NodesOfType(c, T) == {i \in DOMAIN c : IsOfType(nodes, c[i], T)}

\* the least position of a set of positions
Least(M) == CHOOSE i \in M : \A j \in M : i <= j

\* what find_kind_or_cause yields at a node that matches T: the kind of a
\* link of kind type T, else the node
Yield(id, T) == IF IsLinkOfKind(nodes, id, T) THEN KindRef(id) ELSE SelfRef(id)

\* C15: find_kind_or_cause::<T>() makes one pass over the chain from the
\* receiver inclusive and answers from the first node that is a link of
\* kind type T (its kind) or a node that is itself a T (the node); it is
\* None exactly when no node of the chain is either.
C15_FindKindOrCauseSinglePass ==
    call.op = "find_kind_or_cause" =>
        LET c == CauseChain(nodes, Recv)
            M == LinksOfKind(c, call.arg) \cup NodesOfType(c, call.arg)
        IN  /\ (call.ret = None) <=> (M = {})
            /\ M # {} => call.ret = Some(Yield(c[Least(M)], call.arg))

\* a TestError with a cause stands before a link of kind type TestError: the
\* TestError, met first, is the answer
C15_Witness ==
    /\ call.op = "find_kind_or_cause" /\ call.arg = TTestError
    /\ CauseChain(nodes, Recv) = <<3, 2, 1>>
    /\ nodes[2].shape = "facade"
    /\ IsLinkOfKind(nodes, 1, TTestError)
    /\ call.ret = Some(SelfRef(2))

\* C16 as claimed: a link of kind type T anywhere in the chain is the answer,
\* and a node that is itself a T only when the chain has no such link.
C16_AsClaimed ==
    call.op = "find_kind_or_cause" =>
        LET c == CauseChain(nodes, Recv)
            L == LinksOfKind(c, call.arg)
            R == NodesOfType(c, call.arg)
        IN  /\ L # {} => call.ret = Some(KindRef(c[Least(L)]))
            /\ (L = {} /\ R # {}) => call.ret = Some(SelfRef(c[Least(R)]))
            /\ (L = {} /\ R = {}) => call.ret = None

\* C16: find_kind_or_cause::<T>() returns the kind of the first link of kind
\* type T whenever the chain contains such a link and no node that is itself
\* a T stands before it; it returns a node that is itself a T when the chain
\* has no link of kind type T, and also when that node stands before every
\* such link (a T that has a cause of its own, above a link of kind type T).
C16_KindUnlessNodeBefore ==
    call.op = "find_kind_or_cause" =>
        LET c == CauseChain(nodes, Recv)
            L == LinksOfKind(c, call.arg)
            R == NodesOfType(c, call.arg)
        IN  /\ (L # {} /\ \A r \in R : Least(L) < r) =>
                   call.ret = Some(KindRef(c[Least(L)]))
            /\ (R # {} /\ \A l \in L : Least(R) < l) =>
                   call.ret = Some(SelfRef(c[Least(R)]))
            /\ (L = {} /\ R = {}) => call.ret = None

\* a link of kind type Func1Error above a foreign Func1Error: the link's kind
C16_Witness ==
    /\ call.op = "find_kind_or_cause" /\ call.arg = TFunc1Error
    /\ CauseChain(nodes, Recv) = <<3, 2, 1>>
    /\ nodes[1] = Foreign(Val(TFunc1Error, <<"x", NL, "y">>))
    /\ IsLinkOfKind(nodes, 2, TFunc1Error)
    /\ call.ret = Some(KindRef(2))

InnerOps == {"downcast_inner_ref", "downcast_inner_mut"}
DynInnerOps == {"dyn_downcast_inner_ref", "dyn_downcast_inner_mut"}

\* C17 as claimed: on a link and on the type-erased object alike, Some iff
\* is_chain::<T>() holds for the receiver, and then the link's kind.
C17_AsClaimed ==
    call.op \in InnerOps \cup DynInnerOps =>
        call.ret = IF IsLinkOfKind(nodes, Recv, call.arg) THEN Some(KindRef(Recv)) ELSE None

\* C17: downcast_inner_ref::<T>() and downcast_inner_mut::<T>() called on a
\* link return Some iff is_chain::<T>() holds for it, and then yield the
\* link's kind; called on the type-erased error object they return Some iff
\* the object is a link for which is_chain::<T>() holds (yielding its kind)
\* or the object is itself of type T (yielding the object); in every other
\* case they return None.
C17_InnerDowncast ==
    /\ call.op \in InnerOps =>
           call.ret = IF IsLinkOfKind(nodes, Recv, call.arg) THEN Some(KindRef(Recv)) ELSE None
    /\ call.op \in DynInnerOps =>
           call.ret = IF IsLinkOfKind(nodes, Recv, call.arg) THEN Some(KindRef(Recv))
                      ELSE IF IsOfType(nodes, Recv, call.arg) THEN Some(SelfRef(Recv))
                      ELSE None

\* a cause that is a link of kind type Func1Error, reached through source()
\* and downcast to its kind
C17_Witness ==
    /\ call.op = "dyn_downcast_inner_mut" /\ call.arg = TFunc1Error
    /\ Len(nodes) = 3 /\ Recv = 2
    /\ nodes[1] = Foreign(Val(TFunc1Error, <<"x", NL, "y">>))
    /\ call.ret = Some(KindRef(2))

\* the receiver's own part of a {:?} output: what stands before the first
\* 'Caused by:' line
OwnPart(s) ==
    IF \E i \in DOMAIN s : s[i] = "Caused by:"
    THEN SubSeq(s, 1, Least({i \in DOMAIN s : s[i] = "Caused by:"}) - 2)
    ELSE s

PlainText(T) == T \in {TString, TStr}

\* C18: in non-alternate Debug a link writes '<occurrence>: ' before its
\* kind iff its occurrence is Some, and writes the kind in its Display form
\* iff the kind type is String or &str, in its Debug form for every other
\* kind type.
C18_DebugOwnPart ==
    call.op = "debug" =>
        LET n == nodes[Recv]
            own == OwnPart(call.ret)
            tag == IF IsSome(n.occurrence) THEN Unwrap(n.occurrence) \o <<": ">> ELSE <<>>
            form == SubSeq(own, Len(tag) + 1, Len(own))
        IN  /\ SubSeq(own, 1, Len(tag)) = tag
            /\ IsSome(n.occurrence) <=> (\E i \in DOMAIN own : own[i] = ": ")
            /\ PlainText(n.kind.ty) => form = ValDisplay(n.kind)
            /\ ~PlainText(n.kind.ty) => form = ValDebug(n.kind)
            /\ ValDisplay(n.kind) # ValDebug(n.kind) =>
                   (PlainText(n.kind.ty) <=> form = ValDisplay(n.kind))

\* a link without occurrence and with a String kind: the text alone, unquoted
C18_Witness ==
    /\ call.op = "debug"
    /\ nodes[Recv].occurrence = None
    /\ nodes[Recv].kind = Val(TString, <<"a", NL, "b">>)
    /\ call.ret = <<"a", NL, "b">>

\* the positions of chain c whose node prints as a record under {:#?}
Records(c) == {i \in DOMAIN c : nodes[c[i]].shape \in {"link", "facade"}}

\* the position of the first token t of text s
First(s, t) == Least({i \in DOMAIN s : s[i] = t})

\* the {:#?} output is a record labeled occurrence, kind and source, in that
\* order, under the name of the link's type
LabeledRecord ==
    LET n == nodes[Recv]
        head == <<"Error<">> \o TypeName(n.kind.ty)
                    \o <<">", " {", NL, "    ", "occurrence", ": ">>
    IN  /\ SubSeq(call.ret, 1, Len(head)) = head
        /\ Last(call.ret) = "}"
        /\ \A t \in {"occurrence", "kind", "source"} : Count(call.ret, t) >= 1
        /\ First(call.ret, "occurrence") < First(call.ret, "kind")
        /\ First(call.ret, "kind") < First(call.ret, "source")
        /\ Count(call.ret, "Caused by:") = 0

\* C19 as claimed: the output holds no record of a node deeper than the
\* receiver's direct cause.
C19_AsClaimed ==
    call.op = "debug_alternate" =>
        LET c == CauseChain(nodes, Recv)
        IN  /\ LabeledRecord
            /\ Count(call.ret, " {") = Cardinality({i \in Records(c) : i <= 2})

\* C19: alternate Debug ({:#?}) of a link renders a labeled record with the
\* fields occurrence, kind and source and no 'Caused by:' line; the source is
\* rendered with the cause's own alternate Debug, which for a link is again
\* such a record, so the output holds, nested, one record for every link of
\* the chain down to the leaf.
C19_DebugAlternate ==
    call.op = "debug_alternate" =>
        LET c == CauseChain(nodes, Recv)
        IN  /\ LabeledRecord
            /\ \A t \in {" {", "occurrence", "kind", "source"} :
                   Count(call.ret, t) = Cardinality(Records(c))
            /\ nodes[Last(c)].shape = "raw" =>
                   Count(call.ret, ValDebugAlternate(nodes[Last(c)].kind, 0)[1]) >= 1

\* {:#?} of a link over two links: three records, one inside the other
C19_Witness ==
    /\ call.op = "debug_alternate"
    /\ CauseChain(nodes, Recv) = <<3, 2, 1>>
    /\ Records(<<3, 2, 1>>) = {1, 2, 3}
    /\ Count(call.ret, " {") = 3

\* the error held is the link an annotate call returned
HoldsAnnotated == HoldsLink /\ Kind(nodes[res.err]).ty = TAnnotatedError

\* C20: annotate() applied to Err(e) returns a link whose kind is the marker
\* AnnotatedError, which Display and Debug both render as '(passed error)',
\* and whose source() is the original error e; the non-alternate Display of
\* that link is exactly '(passed error)' although it has a cause, and its
\* Debug contains '(passed error)'.
C20_Annotate ==
    [][/\ (res.tag = "Err" /\ call'.op = "annotate") =>
              /\ res'.tag = "Err"
              /\ nodes'[res'.err].shape = "link"
              /\ Kind(nodes'[res'.err]) = AnnotatedError
              /\ ValDisplay(Kind(nodes'[res'.err])) = <<"(passed error)">>
              /\ ValDebug(Kind(nodes'[res'.err])) = <<"(passed error)">>
              /\ source(nodes', res'.err) = Some(res.err)
              /\ nodes'[res.err] = nodes[res.err]
       /\ (HoldsAnnotated /\ call'.op = "display" /\ call'.arg = FALSE) =>
              /\ call'.ret = <<"(passed error)">>
              /\ IsSome(source(nodes, res.err))
       /\ (HoldsAnnotated /\ call'.op = "debug") =>
              /\ Count(call'.ret, "(passed error)") >= 1
              /\ OwnPart(call'.ret) =
                     Unwrap(nodes[res.err].occurrence) \o <<": ", "(passed error)">>]_vars

\* {} of the link annotate() put over an io::Error
C20_Witness ==
    /\ call.op = "display" /\ call.arg = FALSE
    /\ HoldsAnnotated /\ Recv = res.err
    /\ source(nodes, Recv) = Some(1)
    /\ nodes[1] = Foreign(Val(TIoError, <<"NotFound">>))
    /\ call.ret = <<"(passed error)">>

\* C21: for every chain and every kind type U, find_chain_cause::<U>() and
\* find_cause::<Error<U>>() give the same result: called one after the other
\* on the same link, in either order, both answer None or both answer the
\* same link.
C21_FindChainCauseIsFindCause ==
    [][/\ (call.op = "find_chain_cause" /\ call'.op = "find_cause"
              /\ call'.arg = ErrorOf(call.arg) /\ call'.recv = call.recv) =>
              call'.ret = call.ret
       /\ (call.op = "find_cause" /\ call'.op = "find_chain_cause"
              /\ call.arg = ErrorOf(call'.arg) /\ call'.recv = call.recv) =>
              call'.ret = call.ret]_vars

\* find_cause::<Error<io::Error>>() after find_chain_cause::<io::Error>() on
\* two links over Error::from(io::Error): the innermost link, both times
C21_Witness ==
    /\ call.op = "find_cause" /\ call.arg = ErrorOf(TIoError)
    /\ CauseChain(nodes, Recv) = <<3, 2, 1>>
    /\ IsLinkOfKind(nodes, 1, TIoError)
    /\ call.ret = Some(1)
    /\ find_chain_cause(nodes, Recv, TIoError) = Some(1)

\* the links constructed so far
LinksConstructed == {id \in DOMAIN nodes : nodes[id].shape = "link"}

\* the iterator has been run until next() answered None
Exhausted == it.live /\ it.current = None /\ call.op = "next" /\ call.ret = None

\* C22 as claimed: a traversal yields as many nodes as links were constructed.
C22_AsClaimed ==
    Exhausted => Len(yielded) = Cardinality(LinksConstructed)

\* C22: on a chain built by N attach calls, iter() yields the links
\* constructed and the original error: N + 1 nodes, which is the number of
\* links constructed plus one when the original error is a foreign error and
\* not a link; it terminates and the last node yielded has no further cause.
C22_IterYieldsLinksAndLeaf ==
    Exhausted =>
        /\ Len(yielded) =
               Cardinality(LinksConstructed) + (IF nodes[1].shape = "raw" THEN 1 ELSE 0)
        /\ Len(yielded) = (Len(nodes) - 1) + 1
        /\ {yielded[i] : i \in DOMAIN yielded} \cap LinksConstructed = LinksConstructed
        /\ source(nodes, Last(yielded)) = None

\* two attach calls over a foreign error: two links constructed, three nodes
\* yielded
C22_Witness ==
    /\ Exhausted
    /\ nodes[1].shape = "raw"
    /\ Cardinality(LinksConstructed) = 2
    /\ Len(yielded) = 3

\* the last call built an err_kind! newtype from a kind value (call.arg)
FacadeFromKind == call.op = "facade_from" /\ res.tag = "Err"

\* what the claim and the code agree on for a newtype built from a kind k:
\* kind() is k, there is no source, Display is k's Display
FacadeFromKindBasics ==
    /\ (FacadeFromKind /\ call'.op = "facade_kind") => call'.ret = call.arg
    /\ (FacadeFromKind /\ call'.op = "facade_source") => call'.ret = None
    /\ (FacadeFromKind /\ call'.op = "facade_display") => call'.ret = ValDisplay(call.arg)
    /\ (FacadeFromKind /\ call'.op = "facade_debug") =>
           /\ Count(call'.ret, ": ") = 0
           /\ Count(call'.ret, "Caused by:") = 0

\* a newtype built from a link answers as the link it wraps did
FacadeFromLinkForwards ==
    call'.op = "into_facade" =>
        LET l == res.err
        IN  /\ res' = res
            /\ Facade_kind(nodes'[l]) = Kind(nodes[l])
            /\ source(nodes', l) = Error_source(nodes[l])
            /\ \A alternate \in BOOLEAN :
                   Facade_Display(nodes', l, alternate) = Error_Display(nodes, l, alternate)
            /\ Facade_Debug(nodes', l) = Error_Debug(nodes, l)
            /\ \A id \in DOMAIN nodes : id # l => nodes'[id] = nodes[id]

\* C23 as claimed: the non-alternate Debug of a newtype built from a kind k is
\* k's Debug, whatever the kind type.
C23_AsClaimed ==
    [][/\ FacadeFromKindBasics
       /\ (FacadeFromKind /\ call'.op = "facade_debug") => call'.ret = ValDebug(call.arg)
       /\ FacadeFromLinkForwards]_vars

\* C23: an err_kind! newtype built from a kind value k has kind() equal to k,
\* no source, Display equal to k's Display, and non-alternate Debug, with no
\* occurrence prefix and no 'Caused by', equal to k's Debug, or to k's
\* Display when the kind type is String or &str; built from an existing
\* link, its kind(), source(), Display and Debug are those of that link.
C23_Facade ==
    [][/\ FacadeFromKindBasics
       /\ (FacadeFromKind /\ call'.op = "facade_debug") =>
              call'.ret = IF PlainText(call.arg.ty) THEN ValDisplay(call.arg)
                          ELSE ValDebug(call.arg)
       /\ FacadeFromLinkForwards]_vars

\* {:?} of TestError::from(TestErrorKind::Basic("test"))
C23_Witness ==
    /\ call.op = "facade_debug"
    /\ nodes[Recv] = Facade_from_kind(Val(TTestErrorKind, <<"test">>))
    /\ call.ret = <<"Basic(\"", "test", "\")">>


\* ---------------------------------------------------------------------------
\* the nodes reached from id over one or more cause edges, by a walk of at most
\* fuel edges that records every node it steps on
RECURSIVE ReachedFrom(_, _, _)
ReachedFrom(heap, id, fuel) ==
    IF fuel = 0 \/ heap[id].error_cause = None THEN {}
    ELSE LET c == heap[id].error_cause[1]
         IN  {c} \cup ReachedFrom(heap, c, fuel - 1)

Reached(heap, id) == ReachedFrom(heap, id, Len(heap))

\* the nodes that hold id as their cause
OwnersOf(heap, id) == {o \in DOMAIN heap : heap[o].error_cause = Some(id)}

\* the nodes no other node holds as its cause
ChainHeads(heap) == {h \in DOMAIN heap : OwnersOf(heap, h) = {}}

\* C24: the cause edges form finite, acyclic, singly linked chains: every cause
\* edge leads to a node of the heap, no node is reached from itself, every node
\* is the cause of at most one node, and the only node that is nobody's cause
\* is the head the client holds, so a wrapped error is not left behind as the
\* head of a chain of its own.
C24_OwnedAcyclicChains ==
    /\ \A id \in DOMAIN nodes :
          /\ nodes[id].error_cause # None => nodes[id].error_cause[1] \in DOMAIN nodes
          /\ id \notin Reached(nodes, id)
          /\ Cardinality(OwnersOf(nodes, id)) <= 1
    /\ res.tag = "Err" => ChainHeads(nodes) = {res.err}
    /\ res.tag = "Ok" => nodes = <<>>

\* a chain of three nodes after a wrapping: the two wrapped nodes each have
\* exactly one owner
C24_Witness ==
    /\ call.op \in AttachOps
    /\ Len(nodes) = 3
    /\ res.tag = "Err"
    /\ Len(CauseChain(nodes, res.err)) = 3
    /\ \A id \in DOMAIN nodes \ {res.err} : Cardinality(OwnersOf(nodes, id)) = 1


\* ---------------------------------------------------------------------------
\* the nodes a walk from id can reach when it may also step from a link into
\* the link held as its kind
RECURSIVE ReachedThroughKind(_, _, _)
ReachedThroughKind(heap, id, fuel) ==
    IF fuel = 0 THEN {}
    ELSE {id}
         \cup (IF heap[id].error_cause = None THEN {}
               ELSE ReachedThroughKind(heap, heap[id].error_cause[1], fuel - 1))
         \cup (IF IsKindLink(heap[id].kind) /\ heap[id].shape = "link"
               THEN ReachedThroughKind(heap, heap[id].kind.v[2], fuel - 1)
               ELSE {})

\* the nodes reachable from id only through a kind
KindOnly(heap, id) ==
    ReachedThroughKind(heap, id, Len(heap)) \ ({id} \cup Reached(heap, id))

\* the node a returned reference names: find_kind_or_cause answers a
\* reference to a node or to its kind, the others a node
Referent(op, ref) == IF op = "find_kind_or_cause" THEN ref.node ELSE ref

NavigatorOps == {"root_cause", "find_cause", "find_chain_cause", "find_kind_or_cause"}

\* C25: on a link whose kind is itself a link with a cause chain of its own,
\* iter() yields the nodes of the outer link's cause chain and nothing else,
\* root_cause answers the last of them, and a reference that find_cause,
\* find_chain_cause or find_kind_or_cause returns names one of them: no node
\* reachable only through the kind is yielded or matched.
C25_KindNeverDescended ==
    /\ (it.live /\ res.tag = "Err") =>
          /\ \A i \in DOMAIN yielded :
                yielded[i] = CauseChain(nodes, res.err)[i]
          /\ \A i \in DOMAIN yielded : yielded[i] \notin KindOnly(nodes, res.err)
    /\ call.op = "root_cause" => call.ret = Some(Last(CauseChain(nodes, Recv)))
    /\ (call.op \in NavigatorOps /\ call.ret # None) =>
          LET n == Referent(call.op, Unwrap(call.ret))
          IN  /\ n \in {Recv} \cup Reached(nodes, Recv)
              /\ n \notin KindOnly(nodes, Recv)

\* the outer link holds a link with a cause as its kind and has a cause of its
\* own; the traversal is over, and yielded the outer link and its cause only
C25_Witness ==
    /\ call.op = "next" /\ call.ret = None
    /\ res.tag = "Err"
    /\ Cardinality(KindOnly(nodes, res.err)) = 2
    /\ Len(yielded) = 2
    /\ yielded = CauseChain(nodes, res.err)


\* ---------------------------------------------------------------------------
MutOps == {"downcast_inner_mut", "downcast_chain_mut"}

\* what a step leaves alone in the nodes that exist before it
OccurrenceAndCauseKept ==
    \A id \in DOMAIN nodes :
        /\ id \in DOMAIN nodes'
        /\ nodes'[id].shape = nodes[id].shape
        /\ nodes'[id].occurrence = nodes[id].occurrence
        /\ nodes'[id].error_cause = nodes[id].error_cause

ReadOps ==
    {"iter", "next", "collect", "root_cause", "find_cause", "find_chain_cause",
     "find_kind_or_cause", "display", "debug", "debug_alternate"}

\* C27: iter(), next(), root_cause, the find_* methods and the renderings
\* leave every node of the heap as it was; a traversal run from a fresh iter()
\* yields the nodes of the cause chain of its link, so two of them in a row
\* yield the same sequence, and one run while another iterator is part way
\* through the chain neither differs from it nor disturbs it: that iterator
\* keeps its place and, driven to its end, has yielded the same sequence.
C27_ReadsLeaveChain ==
    [][/\ call'.op \in ReadOps => nodes' = nodes /\ res' = res
       /\ call'.op = "collect" =>
             /\ call'.ret = CauseChain(nodes, Unwrap(call'.recv))
             /\ it' = it /\ yielded' = yielded
       /\ (call.op = "collect" /\ call'.op = "collect") => call'.ret = call.ret
       /\ (call.op = "collect" /\ call'.op = "next" /\ call'.ret = None) =>
             yielded' = call.ret
      ]_vars

\* a traversal of a chain of three, run while another iterator has yielded
\* the first node of the chain and not yet the second
C27_Witness ==
    /\ call.op = "collect"
    /\ Len(call.ret) = 3
    /\ it.live /\ it.current = Some(call.ret[2])
    /\ yielded = <<call.ret[1]>>


\* ---------------------------------------------------------------------------
\* this call and the one before it are the same method of ErrorDown, asked
\* for the same type on the same link
SameErrorDownCall ==
    /\ call.op \in ErrorDownOps
    /\ call'.op = call.op
    /\ call'.recv = call.recv
    /\ call'.arg.T = call.arg.T

\* the inner downcasts, asked for the type of the link itself
InnerForOwnType(c) ==
    /\ c.op \in {"downcast_inner_ref", "downcast_inner_mut"}
    /\ c.arg.T = type_id(nodes[Unwrap(c.recv)])

\* C28 as stated: every method of ErrorDown gives the same result on a link
\* whichever implementation answers, Error<U> or one of the three trait
\* objects, for every requested type.
C28_AsClaimed ==
    [][SameErrorDownCall => call'.ret = call.ret]_vars

\* C28: every method of ErrorDown gives the same result on a link whichever
\* implementation answers, with one exception: asked for the type of the link
\* itself, downcast_inner_ref and downcast_inner_mut answer None on Error<U>
\* and the link itself on each of the three trait objects, which agree with
\* each other in every case.
C28_DirectAndErased ==
    [][SameErrorDownCall =>
         IF InnerForOwnType(call) /\ (call.arg.impl = "Error<U>") # (call'.arg.impl = "Error<U>")
         THEN LET direct == IF call.arg.impl = "Error<U>" THEN call ELSE call'
                  erased == IF call.arg.impl = "Error<U>" THEN call' ELSE call
              IN  /\ direct.ret = None
                  /\ erased.ret = Some(SelfRef(Unwrap(call.recv)))
         ELSE call'.ret = call.ret
      ]_vars

\* downcast_chain_mut for the kind type of a link over a cause, answered by
\* the Send + Sync trait object of the link with the link itself
C28_Witness ==
    /\ call.op = "downcast_chain_mut"
    /\ call.arg.impl = "dyn + Send + Sync"
    /\ call.ret = Some(Recv)
    /\ nodes[Recv].kind.ty = call.arg.T
    /\ nodes[Recv].error_cause # None


\* ---------------------------------------------------------------------------
IsFacade(heap, id) == heap[id].shape = "facade"

\* C29: the source() of an err_kind! newtype is the cause of the link it
\* wraps; iterating a chain that holds a newtype yields the newtype and then
\* the causes below the wrapped link in order, never the wrapped link:
\* is_chain asked of a newtype seen as dyn StdError is false for every type,
\* the kind type of the wrapped link included, and find_chain_cause never
\* answers a newtype.
C29_FacadeHidesLink ==
    /\ call.op = "facade_source" => call.ret = nodes[Recv].error_cause
    /\ (it.live /\ res.tag = "Err") =>
          /\ Len(yielded) <= Len(CauseChain(nodes, res.err))
          /\ \A i \in DOMAIN yielded : yielded[i] = CauseChain(nodes, res.err)[i]
          /\ (call.op = "next" /\ call.ret = None) =>
                yielded = CauseChain(nodes, res.err)
    /\ (call.op = "dyn_is_chain" /\ IsFacade(nodes, Recv)) => call.ret = FALSE
    /\ (call.op = "find_chain_cause" /\ call.ret # None) =>
          ~IsFacade(nodes, Unwrap(call.ret))

\* find_chain_cause for the kind type of the newtype in the middle of a chain
\* of three, whose head is a link of another kind: no match
C29_Witness ==
    /\ call.op = "find_chain_cause"
    /\ call.ret = None
    /\ Len(CauseChain(nodes, Recv)) = 3
    /\ IsFacade(nodes, CauseChain(nodes, Recv)[2])
    /\ nodes[CauseChain(nodes, Recv)[2]].kind.ty = call.arg


\* ---------------------------------------------------------------------------
\* C30: over the life of one iterator the next() calls that returned Some
\* (the nodes in `yielded`) never outnumber the nodes of the chain; they fall
\* short of it while the iterator still has a node to yield, and once it has
\* yielded the last one they equal it, and next() answers None and leaves the
\* iterator exhausted, so every later next() answers None as well.
C30_FusedAfterLast ==
    (it.live /\ res.tag = "Err") =>
        LET chain == CauseChain(nodes, res.err)
        IN  /\ Len(yielded) <= Len(chain)
            /\ it.current # None => Len(yielded) < Len(chain)
            /\ it.current = None =>
                  /\ Len(yielded) = Len(chain)
                  /\ ErrorIter_next(nodes, it.current) = [ret |-> None, current |-> None]
            /\ (call.op = "next" /\ call.ret = None) => it.current = None

\* next() has answered None on a chain of three: three calls answered Some
C30_Witness ==
    /\ Exhausted
    /\ yielded = <<3, 2, 1>>
    /\ ErrorIter_next(nodes, it.current).ret = None

====
